---- MODULE Spec2Model ----
(***************************************************************************)
(* PER-Agent: the research pipeline (core/orchestrator.py) and the         *)
(* literature retrieval functions (agents/literature_scout.py).            *)
(*                                                                         *)
(* Relevance scores are kept in thousandths (0.5 is 500), so that the      *)
(* float arithmetic of the source is integer arithmetic here.              *)
(***************************************************************************)
EXTENDS Integers, Sequences, FiniteSets, TLC

VARIABLES
    \* ---- retrieval functions (literature_scout.py) ----
    rpc,              \* position in the retrieval computation
    query,            \* the ResearchQuery the retrieval runs for
    all_papers,       \* process(): merged adapter results
    unique_papers,    \* process(): _deduplicate_papers(all_papers)
    rededup_papers,   \* _deduplicate_papers applied to its own output
    ranked_papers,    \* process(): _rank_papers(query, unique_papers)
    filtered_papers,  \* process(): _apply_filters(ranked_papers, query)
    search_results,   \* process(): what asyncio.gather returned, one per adapter
    \* ---- heuristic_score on a pair of candidates ----
    hpc, hA, hB, hScoreA, hScoreB,
    \* ---- the research run (core/orchestrator.py) ----
    pc,               \* research(): "idle", "workflow", "returned", "raised"
    node,             \* the workflow node that runs next, or END
    active,           \* the nodes that have been entered and have not returned
    state,            \* the AgentState threaded through the nodes
    started,          \* history: the nodes in the order they were entered
    finished,         \* history: the nodes in the order they returned or raised
    faulted,          \* history: the nodes whose agent raised into the node
    analysis_input,   \* history: the list DocumentAnalyzerAgent.process iterated
    outcome,          \* what research() gave its caller
    cancelled,        \* the node that was running when the run's task was cancelled
    status,           \* what the last get_workflow_status call returned
    \* ---- one agent's LLM (agents/base_agent.py) ----
    ipc,              \* "new", "ready", "attempting", "sleeping", "returned", "raised"
    agent_config,     \* the AgentConfig and what its models do when called
    self_llm,         \* self.llm: the model the agent is bound to
    model_used,       \* self.config.model, as get_performance_stats reports it
    attempt,          \* _execute_llm_chain: the loop variable
    calls,            \* history: the result of every chain.ainvoke, in order
    waits,            \* history: the argument of every asyncio.sleep, in order
    invoke_result,    \* what _initialize_llm or _execute_llm_chain gave its caller
    \* ---- inside one _rank_papers call ----
    ranking_llm,      \* the outcome of the ranking LLM call
    llm_candidates,   \* history: the candidate list of every ranking request
    parsed_scores,    \* what _parse_ranking_results returned
    \* ---- keyword lists as Python objects (literature_scout.py) ----
    kpc,              \* "idle", "start", "enhanced", "searched", "ranked"
    keyword_lists,    \* the heap: list object -> its items
    query_keywords,   \* the list object query.keywords refers to
    enhanced_keywords,\* the list object _enhance_keywords returned
    paper_keywords,   \* per candidate, the list object paper.keywords refers to
    keyword_llm,      \* the outcome of the keyword-expansion LLM call
    \* ---- identifiers (core/models.py, core/orchestrator.py) ----
    clock,            \* datetime.now(), in ticks of 1/TicksPerSecond seconds
    session_ids,      \* history: the session_id of every ResearchQuery created
    thread_ids,       \* history: the thread_id of every research() call
    \* ---- the retrieval stage run again on the state it produced ----
    runs,             \* how many times process() has returned
    external,         \* what the stage's external calls answer, in every run
    first_papers,     \* history: the tags of state.papers after the first run
    \* ---- _quality_decision ----
    decisions         \* history: the answer of every _quality_decision call

retrievalVars == <<rpc, query, all_papers, unique_papers, rededup_papers,
                   ranked_papers, filtered_papers, search_results>>
heuristicVars == <<hpc, hA, hB, hScoreA, hScoreB>>
runVars == <<pc, node, active, state, started, finished, faulted,
             analysis_input, outcome, cancelled, status>>
invokeVars == <<ipc, agent_config, self_llm, model_used, attempt, calls, waits,
                invoke_result>>
rankVars == <<ranking_llm, llm_candidates, parsed_scores>>
keywordVars == <<kpc, keyword_lists, query_keywords, enhanced_keywords,
                 paper_keywords, keyword_llm>>
idVars == <<clock, session_ids, thread_ids>>
rerunVars == <<runs, external, first_papers>>
revisionVars == <<decisions>>
extraVars == <<rankVars, keywordVars, idVars, rerunVars, revisionVars>>

(***************************************************************************)
(* Bounds                                                                  *)
(***************************************************************************)
MaxDedupLen == 3      \* longest merged list given to _deduplicate_papers
MaxCitations == 60    \* largest citation count given to heuristic_score
FirstYear == 2018     \* earliest publication year given to heuristic_score
LastYear == 2021      \* latest publication year given to heuristic_score
MaxRankLen == 2       \* longest list given to _rank_papers / _apply_filters
MaxExtra == 1         \* most candidates beyond the TOP_K_FOR_LLM given to _rank_papers
MaxKeywordPapers == 2 \* most papers the adapters return in the keyword model
MaxRuns == 2          \* most runs of the retrieval stage on one state
TicksPerSecond == 2   \* clock ticks in one second
MaxClock == 4         \* the last clock tick of the identifier model
MaxIds == 2           \* most queries, and most runs, one process creates
MaxDecisions == 4     \* most _quality_decision calls in one run
MaxBlocks == 2        \* most paper blocks in an LLM ranking response
MaxSources == 2       \* largest min_sources / max_sources of a query
MaxRetries == 3        \* largest AgentConfig.max_retries an agent is built with
MaxRunPapers == 2     \* most papers the adapters return in a research run

(***************************************************************************)
(* Sequence helpers                                                        *)
(***************************************************************************)
Range(s) == {s[i] : i \in 1..Len(s)}

SeqsUpTo(S, n) == UNION {[1..k -> S] : k \in 0..n}

Min2(a, b) == IF a <= b THEN a ELSE b
Max2(a, b) == IF a >= b THEN a ELSE b

\* Python's s[:n]
Take(s, n) == IF n <= 0 THEN <<>> ELSE SubSeq(s, 1, Min2(n, Len(s)))

(***************************************************************************)
(* Titles are sequences of characters.                                     *)
(***************************************************************************)
Lower(c) == CASE c = "A" -> "a" [] c = "B" -> "b" [] c = "X" -> "x" [] OTHER -> c

IsSpace(c) == c = " "
IsWordChar(c) == c \in {"a", "b", "x", "A", "B", "X"}

LowerStr(s) == [i \in 1..Len(s) |-> Lower(s[i])]

\* re.sub(r'[^\w\s]', '', s): drop every character that is neither a word
\* character nor whitespace
KeptByStripPunct(c) == IsWordChar(c) \/ IsSpace(c)
StripPunct(s) == SelectSeq(s, KeptByStripPunct)

\* ' '.join(s.split()): leading/trailing whitespace removed, inner runs of
\* whitespace collapsed to one space
RECURSIVE CollapseSpaces(_, _)
CollapseSpaces(s, out) ==
    IF s = <<>> THEN out
    ELSE IF IsSpace(Head(s))
         THEN IF out = <<>> \/ Tail(s) = <<>> \/ IsSpace(Head(Tail(s)))
              THEN CollapseSpaces(Tail(s), out)
              ELSE CollapseSpaces(Tail(s), Append(out, " "))
         ELSE CollapseSpaces(Tail(s), Append(out, Head(s)))

\* literature_scout.py:403-404
NormalizeTitle(t) == CollapseSpaces(StripPunct(LowerStr(t)), <<>>)

(***************************************************************************)
(* Papers (core/models.py Paper)                                           *)
(***************************************************************************)
NoDoi == "none"       \* doi=None
NoYear == 0           \* published_date=None

Paper(t, d, c, y, a) ==
    [title |-> t, doi |-> d, citations |-> c, year |-> y, abstract |-> a,
     relevance_score |-> 0]

HasDoi(p) == p.doi # NoDoi

(***************************************************************************)
(* _deduplicate_papers (literature_scout.py:388-415)                       *)
(***************************************************************************)
\* one iteration of the loop over papers: st = [unique, seen_titles, seen_dois]
DedupStepPrevOnly(st, paper) ==
    LET prev == IF st.unique = <<>> THEN <<>> ELSE <<st.last>> IN
    IF /\ prev # <<>>
       /\ \/ (HasDoi(paper) /\ paper.doi = prev[1].doi)
          \/ NormalizeTitle(paper.title) = NormalizeTitle(prev[1].title)
    THEN [st EXCEPT !.last = paper]
    ELSE [st EXCEPT !.unique = Append(@, paper), !.last = paper]

DedupStep(st, paper) ==
    IF HasDoi(paper) /\ paper.doi \in st.seen_dois
    THEN st
    ELSE IF NormalizeTitle(paper.title) \in st.seen_titles
         THEN st
         ELSE [st EXCEPT
                 !.unique = Append(@, paper),
                 !.seen_titles = @ \cup {NormalizeTitle(paper.title)},
                 !.seen_dois = IF HasDoi(paper) THEN @ \cup {paper.doi} ELSE @,
                 !.last = paper]

RECURSIVE DedupLoop(_, _)
DedupLoop(st, papers) ==
    IF papers = <<>> THEN st
    ELSE DedupLoop(DedupStep(st, Head(papers)), Tail(papers))

_deduplicate_papers(papers) ==
    IF papers = <<>> THEN papers
    ELSE DedupLoop([unique |-> <<>>, seen_titles |-> {}, seen_dois |-> {},
                    last |-> Paper(<<>>, NoDoi, 0, NoYear, <<>>)], papers).unique

(***************************************************************************)
(* _rank_papers.heuristic_score (literature_scout.py:422-425), in          *)
(* thousandths: citations/100.0 is 10 thousandths per citation             *)
(***************************************************************************)
RecentYear == 2020

heuristic_scoreOldBonus(p) ==
    LET citation_score == Min2(p.citations * 10, 500)
        year_score == IF p.year # NoYear /\ p.year < RecentYear THEN 300 ELSE 100
    IN citation_score + year_score + 200

heuristic_score(p) ==
    LET citation_score == Min2(p.citations * 10, 500)
        year_score == IF p.year # NoYear /\ p.year >= RecentYear THEN 300 ELSE 100
    IN citation_score + year_score + 200

(***************************************************************************)
(* sorted(..., key=..., reverse=True): the indices 1..Len(keys) by         *)
(* descending key; Python's sort is stable, also with reverse=True, so     *)
(* equal keys stay in their original order                                 *)
(***************************************************************************)
InsertDesc(sorted, i, keys) ==
    LET k == Cardinality({m \in 1..Len(sorted) : keys[sorted[m]] >= keys[i]})
    IN SubSeq(sorted, 1, k) \o <<i>> \o SubSeq(sorted, k + 1, Len(sorted))

RECURSIVE SortIdxDesc(_, _)
SortIdxDesc(keys, n) ==
    IF n = 0 THEN <<>> ELSE InsertDesc(SortIdxDesc(keys, n - 1), n, keys)

SortedDesc(s, keys) ==
    LET order == SortIdxDesc(keys, Len(s)) IN [k \in 1..Len(s) |-> s[order[k]]]

(***************************************************************************)
(* _parse_ranking_results (literature_scout.py:499-534).  The LLM response *)
(* is a sequence of non-empty stripped lines; a line is a record           *)
(*   [kind |-> "paper"]                       'Paper ID:' / 'Paper ' line  *)
(*   [kind |-> "score", ok, val]              'Score:' line; ok says that  *)
(*                                            a number was found, val is   *)
(*                                            that number in thousandths   *)
(*   [kind |-> "concepts", concepts]          'Key Physics Concepts:' line *)
(*   [kind |-> "other"]                       any other line               *)
(* An entry of the result is a dict; has_score / has_concepts say which    *)
(* keys it holds.                                                          *)
(***************************************************************************)
EmptyEntry == [has_score |-> FALSE, score |-> 0,
               has_concepts |-> FALSE, concepts |-> <<>>]
DefaultEntry == [has_score |-> TRUE, score |-> 500,
                 has_concepts |-> TRUE, concepts |-> <<>>]

\* the parsed number taken as it is
ClampNone(v) == v

\* min(max(score, 0.0), 1.0)
Clamp01(v) == Min2(Max2(v, 0), 1000)

ParseLine(st, line) ==
    CASE line.kind = "paper" ->
            [scores |-> IF st.current # EmptyEntry
                        THEN Append(st.scores, st.current) ELSE st.scores,
             current |-> EmptyEntry]
      [] line.kind = "score" ->
            [st EXCEPT !.current.has_score = TRUE,
                       !.current.score = IF line.ok THEN Clamp01(line.val) ELSE 500]
      [] line.kind = "concepts" ->
            [st EXCEPT !.current.has_concepts = TRUE,
                       !.current.concepts = line.concepts]
      [] OTHER -> st

RECURSIVE ParseLines(_, _)
ParseLines(st, lines) ==
    IF lines = <<>> THEN st ELSE ParseLines(ParseLine(st, Head(lines)), Tail(lines))

_parse_ranking_results(ranking_text, num_papers) ==
    LET st == ParseLines([scores |-> <<>>, current |-> EmptyEntry], ranking_text)
        scores == IF st.current # EmptyEntry
                  THEN Append(st.scores, st.current) ELSE st.scores
        padded == scores \o [k \in 1..(num_papers - Len(scores)) |-> DefaultEntry]
    IN Take(padded, num_papers)

(***************************************************************************)
(* _rank_papers (literature_scout.py:417-497).  llm is the outcome of the  *)
(* ranking call: [kind |-> "ok", text |-> lines], [kind |-> "timeout"] or  *)
(* [kind |-> "error"].                                                     *)
(***************************************************************************)
TOP_K_FOR_LLM == 6

HeuristicKeys(papers) == [i \in 1..Len(papers) |-> heuristic_score(papers[i])]
ScoreKeys(papers) == [i \in 1..Len(papers) |-> papers[i].relevance_score]

\* the except branches: every paper gets its heuristic score
HeuristicRanked(papers) ==
    LET scored == [i \in 1..Len(papers) |->
                      [papers[i] EXCEPT !.relevance_score = heuristic_score(papers[i])]]
    IN SortedDesc(scored, ScoreKeys(scored))

\* lines 429-431 without the [:TOP_K_FOR_LLM] slice
LlmCandidateIdxAll(papers) ==
    SortIdxDesc(HeuristicKeys(papers), Len(papers))

\* lines 429-431: the indices of llm_candidates, the min(6, len(papers))
\* papers first in the stable descending sort by heuristic score
LlmCandidateIdx(papers) ==
    Take(SortIdxDesc(HeuristicKeys(papers), Len(papers)),
         Min2(TOP_K_FOR_LLM, Len(papers)))

\* the try branch
LlmRanked(papers, text) ==
    LET n == Len(papers)
        cand == LlmCandidateIdx(papers)         \* indices of llm_candidates
        K == Len(cand)
        scores == _parse_ranking_results(text, K)
        CandPos(i) == CHOOSE k \in 1..K : cand[k] = i
        \* lines 469-475: LLM scores applied to the candidates, in place
        afterLlm == [i \in 1..n |->
            IF i \in Range(cand)
            THEN IF CandPos(i) <= Len(scores)
                 THEN [papers[i] EXCEPT !.relevance_score =
                          IF scores[CandPos(i)].has_score
                          THEN scores[CandPos(i)].score
                          ELSE heuristic_score(papers[i])]
                 ELSE [papers[i] EXCEPT !.relevance_score = heuristic_score(papers[i])]
            ELSE papers[i]]
        \* lines 478-480: p not in llm_candidates compares by value
        InCandidates(i) == \E k \in 1..K : afterLlm[cand[k]] = afterLlm[i]
        final == [i \in 1..n |->
            IF InCandidates(i) THEN afterLlm[i]
            ELSE [afterLlm[i] EXCEPT !.relevance_score = heuristic_score(afterLlm[i])]]
    IN SortedDesc(final, ScoreKeys(final))

\* llm_candidates (line 431) as the papers themselves
LlmCandidates(papers) ==
    LET cand == LlmCandidateIdx(papers)
    IN [k \in 1..Len(cand) |-> papers[cand[k]]]

_rank_papers(papers, llm) ==
    IF papers = <<>> THEN papers
    ELSE IF llm.kind = "ok" THEN LlmRanked(papers, llm.text)
    ELSE HeuristicRanked(papers)

(***************************************************************************)
(* _apply_filters (literature_scout.py:536-572)                            *)
(***************************************************************************)
MinRelevance == 200     \* paper.relevance_score < 0.2 is skipped

\* Python's  needle in hay  on strings
Contains(hay, needle) ==
    \E i \in 1..(Len(hay) - Len(needle) + 1) :
        SubSeq(hay, i, i + Len(needle) - 1) = needle

\* lines 546-551
OutsidePreferredYears(paper, q) ==
    /\ q.preferred_years # <<>>
    /\ paper.year # NoYear
    /\ \/ paper.year < q.preferred_years[1]
       \/ paper.year > q.preferred_years[2]

\* lines 554-557
MatchesExcludeKeyword(paper, q) ==
    /\ q.exclude_keywords # <<>>
    /\ LET title_abstract == LowerStr(paper.title \o <<" ">> \o paper.abstract)
       IN \E k \in 1..Len(q.exclude_keywords) :
              Contains(title_abstract, LowerStr(q.exclude_keywords[k]))

Skipped(paper, q) ==
    \/ paper.relevance_score < MinRelevance
    \/ OutsidePreferredYears(paper, q)
    \/ MatchesExcludeKeyword(paper, q)

\* the loop of lines 540-563, with its break at max_sources
RECURSIVE FilterLoop(_, _, _)
FilterLoop(filtered, papers, q) ==
    IF papers = <<>> THEN filtered
    ELSE IF Skipped(Head(papers), q) THEN FilterLoop(filtered, Tail(papers), q)
    ELSE LET next == Append(filtered, Head(papers))
         IN IF Len(next) >= q.max_sources THEN next
            ELSE FilterLoop(next, Tail(papers), q)

\* lines 566-570
UnderFill(filtered, papers, q) ==
    IF Len(filtered) < q.min_sources /\ Len(papers) >= q.min_sources
    THEN LET NotYetIn(p) == p \notin Range(filtered)
             remaining_papers == SelectSeq(papers, NotYetIn)
             needed == q.min_sources - Len(filtered)
         IN filtered \o Take(remaining_papers, needed)
    ELSE filtered

_apply_filters(papers, q) == UnderFill(FilterLoop(<<>>, papers, q), papers, q)

(***************************************************************************)
(* process() step 2: the source adapters (literature_scout.py:159-176)     *)
(***************************************************************************)
\* search_tasks: arXiv, Semantic Scholar, AIP, ComPADRE, PER Central
NumAdapters == 5

\* an adapter returned a list and met no error
AdapterOk(papers) == [kind |-> "list", failed |-> FALSE, papers |-> papers]
\* an adapter caught its own error, logged it and returned what it had
\* collected (arXiv and Semantic Scholar return [], lines 305-307, 384-386;
\* the others return their partial list, lines 714-720)
AdapterCaught(papers) == [kind |-> "list", failed |-> TRUE, papers |-> papers]
\* an error left the adapter: gather(return_exceptions=True) returns it
AdapterRaised == [kind |-> "exception", failed |-> TRUE, papers |-> <<>>]

\* lines 171-176
RECURSIVE MergeResults(_)
MergeResults(results) ==
    IF results = <<>> THEN <<>>
    ELSE IF Head(results).kind = "exception" THEN MergeResults(Tail(results))
    ELSE Head(results).papers \o MergeResults(Tail(results))

(***************************************************************************)
(* Values a variable group holds while another specification runs          *)
(***************************************************************************)
NoQuery == [question |-> <<>>, min_sources |-> 0, max_sources |-> 0,
            preferred_years |-> <<>>, exclude_keywords |-> <<>>]

RetrievalIdle ==
    /\ rpc = "idle" /\ query = NoQuery
    /\ all_papers = <<>> /\ unique_papers = <<>> /\ rededup_papers = <<>>
    /\ ranked_papers = <<>> /\ filtered_papers = <<>>
    /\ search_results = <<>>

NoState ==
    [shape |-> "none", current_step |-> "none",
     has_papers |-> FALSE, papers |-> <<>>,
     literature_results |-> <<>>, analyzed_documents |-> <<>>,
     validation_results |-> <<>>, synthesized_content |-> "none",
     research_report |-> "none", generated_report |-> "none",
     quality_assessment |-> "None", errors |-> <<>>, warnings |-> <<>>,
     revision_count |-> 0]

RunIdle ==
    /\ pc = "off" /\ node = "none" /\ active = {} /\ state = NoState
    /\ started = <<>> /\ finished = <<>> /\ faulted = {}
    /\ analysis_input = <<>>
    /\ outcome = [kind |-> "none"]
    /\ cancelled = "none"
    /\ status = [kind |-> "none"]

HeuristicIdle ==
    /\ hpc = "idle"
    /\ hA = Paper(<<>>, NoDoi, 0, NoYear, <<>>)
    /\ hB = Paper(<<>>, NoDoi, 0, NoYear, <<>>)
    /\ hScoreA = 0 /\ hScoreB = 0

NoAgentConfig == [max_retries |-> 0, primary |-> "none", alternate |-> "none"]

InvokeIdle ==
    /\ ipc = "off" /\ agent_config = NoAgentConfig
    /\ self_llm = "none" /\ model_used = "none"
    /\ attempt = 0 /\ calls = <<>> /\ waits = <<>>
    /\ invoke_result = [kind |-> "none"]

RankIdle ==
    /\ ranking_llm = [kind |-> "none"] /\ llm_candidates = <<>> /\ parsed_scores = <<>>

KeywordIdle ==
    /\ kpc = "idle" /\ keyword_lists = <<>>
    /\ query_keywords = 0 /\ enhanced_keywords = 0
    /\ paper_keywords = <<>> /\ keyword_llm = [kind |-> "none"]

IdIdle == clock = 0 /\ session_ids = <<>> /\ thread_ids = <<>>

RerunIdle ==
    /\ runs = 0 /\ external = [kind |-> "none"]
    /\ first_papers = <<>>

RevisionIdle == decisions = <<>>

ExtraIdle == RankIdle /\ KeywordIdle /\ IdIdle /\ RerunIdle /\ RevisionIdle

vars == <<retrievalVars, heuristicVars, runVars, invokeVars, extraVars>>

(***************************************************************************)
(* SpecDedup: _deduplicate_papers on every merged list of up to            *)
(* MaxDedupLen papers, then once more on its own output.                   *)
(***************************************************************************)
\* "ab", "Ab!", "a b", " a  b", "x": three normalized titles
DedupTitles == { <<"a", "b">>, <<"A", "b", "!">>, <<"a", " ", "b">>,
                 <<" ", "a", " ", " ", "b">>, <<"x">> }
DedupDois == {NoDoi, "10.1/X", "10.1/Y"}

DedupPapers == {Paper(t, d, 0, NoYear, <<>>) : t \in DedupTitles, d \in DedupDois}

InitDedup ==
    /\ rpc = "merged"
    /\ query = NoQuery
    /\ all_papers \in SeqsUpTo(DedupPapers, MaxDedupLen)
    /\ unique_papers = <<>> /\ rededup_papers = <<>>
    /\ ranked_papers = <<>> /\ filtered_papers = <<>>
    /\ search_results = <<>>
    /\ HeuristicIdle
    /\ RunIdle
    /\ InvokeIdle
    /\ ExtraIdle

\* process() step 3 (literature_scout.py:181)
Deduplicate ==
    /\ rpc = "merged"
    /\ unique_papers' = _deduplicate_papers(all_papers)
    /\ rpc' = "deduped"
    /\ UNCHANGED <<query, search_results, invokeVars, extraVars, all_papers, rededup_papers, ranked_papers,
                   filtered_papers, heuristicVars, runVars>>

\* _deduplicate_papers run again on the list it returned
DeduplicateAgain ==
    /\ rpc = "deduped"
    /\ rededup_papers' = _deduplicate_papers(unique_papers)
    /\ rpc' = "rededuped"
    /\ UNCHANGED <<query, search_results, invokeVars, extraVars, all_papers, unique_papers, ranked_papers,
                   filtered_papers, heuristicVars, runVars>>

NextDedup == Deduplicate \/ DeduplicateAgain

SpecDedup == InitDedup /\ [][NextDedup]_vars

(***************************************************************************)
(* Claims on _deduplicate_papers                                           *)
(***************************************************************************)
\* the duplicate relation as C7 states it: equal DOIs when both carry one,
\* equal normalized titles otherwise
ClaimDuplicates(p, q) ==
    IF HasDoi(p) /\ HasDoi(q)
    THEN p.doi = q.doi
    ELSE NormalizeTitle(p.title) = NormalizeTitle(q.title)

\* first-seen-wins deduplication under ClaimDuplicates
RECURSIVE ClaimDedup(_, _)
ClaimDedup(kept, papers) ==
    IF papers = <<>> THEN kept
    ELSE IF \E i \in 1..Len(kept) : ClaimDuplicates(kept[i], Head(papers))
         THEN ClaimDedup(kept, Tail(papers))
         ELSE ClaimDedup(Append(kept, Head(papers)), Tail(papers))

Deduped == rpc \in {"deduped", "rededuped"}

\* C7 (as stated): the output holds no two duplicates, a document is removed
\* only if it duplicates a document kept earlier in input order, and two
\* documents with different DOIs are both kept even when their titles match;
\* together: the output is the first-seen-wins deduplication by
\* DOI-if-both-carry-one, else normalized title.
C7_DedupByDoiElseTitle ==
    Deduped =>
        /\ \A i, j \in 1..Len(unique_papers) :
               i < j => ~ClaimDuplicates(unique_papers[i], unique_papers[j])
        /\ unique_papers = ClaimDedup(<<>>, all_papers)

\* C8: _deduplicate_papers is idempotent: applied to its own output it
\* returns the same documents in the same order.
C8_DedupIdempotent ==
    rpc = "rededuped" => rededup_papers = unique_papers

\* a run where the first pass removed a duplicate and kept two documents
C8_Witness ==
    /\ rpc = "rededuped"
    /\ Len(unique_papers) = 2
    /\ Len(all_papers) = 3

(***************************************************************************)
(* SpecHeuristic: heuristic_score on every pair of candidates with         *)
(* citation counts 0..MaxCitations and publication years                   *)
(* FirstYear..LastYear (or no publication date).                           *)
(***************************************************************************)
HeuristicPapers ==
    {Paper(<<"x">>, NoDoi, c, y, <<>>) :
        c \in 0..MaxCitations, y \in {NoYear} \cup (FirstYear..LastYear)}

InitHeuristic ==
    /\ RetrievalIdle
    /\ hpc = "start"
    /\ hA \in HeuristicPapers
    /\ hB \in HeuristicPapers
    /\ hScoreA = 0 /\ hScoreB = 0
    /\ RunIdle
    /\ InvokeIdle
    /\ ExtraIdle

ScorePair ==
    /\ hpc = "start"
    /\ hScoreA' = heuristic_score(hA)
    /\ hScoreB' = heuristic_score(hB)
    /\ hpc' = "scored"
    /\ UNCHANGED <<hA, hB, retrievalVars, runVars, invokeVars, extraVars>>

NextHeuristic == ScorePair

SpecHeuristic == InitHeuristic /\ [][NextHeuristic]_vars

\* C10: rank monotonicity of the heuristic score: if A has at least as many
\* citations as B and was published at least as recently, A's heuristic
\* score is at least B's.
C10_RankMonotone ==
    ( /\ hpc = "scored"
      /\ hA.year # NoYear /\ hB.year # NoYear
      /\ hA.citations >= hB.citations
      /\ hA.year >= hB.year )
    => hScoreA >= hScoreB

\* A has more citations (below the cap) and is recent, B is older
C10_Witness ==
    /\ hpc = "scored"
    /\ hB.year # NoYear /\ hB.year < RecentYear /\ hA.year >= RecentYear
    /\ hA.citations > hB.citations /\ hA.citations < 50
    /\ hScoreA > hScoreB

(***************************************************************************)
(* Candidates for _rank_papers and _apply_filters: what deduplication      *)
(* returns, so no two share a title.  The i-th paper is titled "a" * i.    *)
(***************************************************************************)
TitleOf(i) == [j \in 1..i |-> "a"]

RankCitations == {0, 50, 70}
RankYears == {NoYear, 2019, 2021}
Abstracts == {<<>>, <<"X">>}

\* lists of n candidates with relevance_score not yet set
CandidateLists(n) ==
    {[i \in 1..n |-> Paper(TitleOf(i), NoDoi, f[i][1], f[i][2], f[i][3])] :
        f \in [1..n -> RankCitations \X RankYears \X Abstracts]}

(***************************************************************************)
(* LLM ranking responses: up to MaxBlocks paper blocks, each a 'Paper'     *)
(* line followed by a score line, a concepts line or only other text       *)
(***************************************************************************)
LlmBlocks ==
    { <<[kind |-> "paper"], [kind |-> "score", ok |-> TRUE, val |-> 0]>>,
      <<[kind |-> "paper"], [kind |-> "score", ok |-> TRUE, val |-> 1500]>>,
      <<[kind |-> "paper"], [kind |-> "score", ok |-> FALSE, val |-> 0]>>,
      <<[kind |-> "paper"], [kind |-> "concepts", concepts |-> <<"x">>]>>,
      <<[kind |-> "paper"], [kind |-> "other"]>> }

RECURSIVE Flatten(_)
Flatten(blocks) ==
    IF blocks = <<>> THEN <<>> ELSE Head(blocks) \o Flatten(Tail(blocks))

LlmOutcomes ==
    {[kind |-> "ok", text |-> Flatten(bs)] : bs \in SeqsUpTo(LlmBlocks, MaxBlocks)}
    \cup {[kind |-> "timeout", text |-> <<>>], [kind |-> "error", text |-> <<>>]}

(***************************************************************************)
(* SpecRank: _rank_papers on every candidate list of up to MaxRankLen      *)
(* papers, under every outcome of the LLM ranking call.                    *)
(***************************************************************************)
\* lists longer than TOP_K_FOR_LLM, of candidates that differ in their
\* citation counts only
LongCandidateLists ==
    UNION {{[i \in 1..n |-> Paper(TitleOf(i), NoDoi, f[i], 2019, <<>>)] :
               f \in [1..n -> {0, 70}]} :
           n \in (TOP_K_FOR_LLM + 1)..(TOP_K_FOR_LLM + MaxExtra)}

InitRank ==
    /\ rpc = "unique"
    /\ query = NoQuery
    /\ all_papers = <<>>
    /\ unique_papers \in UNION {CandidateLists(n) : n \in 0..MaxRankLen}
                             \cup LongCandidateLists
    /\ rededup_papers = <<>>
    /\ ranked_papers = <<>> /\ filtered_papers = <<>>
    /\ search_results = <<>>
    /\ HeuristicIdle
    /\ RunIdle
    /\ InvokeIdle
    /\ RankIdle /\ KeywordIdle /\ IdIdle /\ RerunIdle /\ RevisionIdle

\* what the call leaves behind: the request made with llm_candidates (lines
\* 456-463; none for an empty list, line 419) and the parsed response (line
\* 466)
RankingCall(llm) ==
    /\ ranking_llm' = llm
    /\ llm_candidates' = IF unique_papers = <<>> THEN <<>>
                         ELSE <<LlmCandidates(unique_papers)>>
    /\ parsed_scores' = IF unique_papers # <<>> /\ llm.kind = "ok"
                        THEN _parse_ranking_results(llm.text,
                                 Len(LlmCandidates(unique_papers)))
                        ELSE <<>>

\* process() step 4 (literature_scout.py:185), the LLM call answering
RankWithLlm ==
    /\ rpc = "unique"
    /\ \E llm \in {o \in LlmOutcomes : o.kind = "ok"} :
           /\ ranked_papers' = _rank_papers(unique_papers, llm)
           /\ RankingCall(llm)
    /\ rpc' = "ranked_llm"
    /\ UNCHANGED <<query, search_results, invokeVars, keywordVars, idVars, rerunVars, revisionVars, all_papers, unique_papers, rededup_papers,
                   filtered_papers, heuristicVars, runVars>>

\* process() step 4, the LLM call timing out or failing after its retries
RankFallback ==
    /\ rpc = "unique"
    /\ \E llm \in {o \in LlmOutcomes : o.kind # "ok"} :
           /\ ranked_papers' = _rank_papers(unique_papers, llm)
           /\ RankingCall(llm)
    /\ rpc' = "ranked_heuristic"
    /\ UNCHANGED <<query, search_results, invokeVars, keywordVars, idVars, rerunVars, revisionVars, all_papers, unique_papers, rededup_papers,
                   filtered_papers, heuristicVars, runVars>>

NextRank == RankWithLlm \/ RankFallback

SpecRank == InitRank /\ [][NextRank]_vars

Ranked == rpc \in {"ranked_llm", "ranked_heuristic"}

\* s is ordered by descending score, equal scores by descending citation
\* count, and papers equal in both by their order in `seen`
OrderedByScoreCitationsSeen(s, seen) ==
    \A i, j \in 1..Len(s) :
        i < j =>
            \/ s[i].relevance_score > s[j].relevance_score
            \/ /\ s[i].relevance_score = s[j].relevance_score
               /\ \/ s[i].citations > s[j].citations
                  \/ /\ s[i].citations = s[j].citations
                     /\ \A a, b \in 1..Len(seen) :
                            (seen[a].title = s[i].title /\ seen[b].title = s[j].title)
                                => a < b

\* C9 (as stated): the list _rank_papers returns is ordered by descending
\* final relevance score, candidates with equal score by higher citation
\* count first, and candidates equal in both by earlier first-seen order.
C9_RankedByScoreThenCitations ==
    Ranked => OrderedByScoreCitationsSeen(ranked_papers, unique_papers)

\* the paper without its score, which ranking alone rewrites
Unscored(p) == [p EXCEPT !.relevance_score = 0]

\* C25: of n deduplicated candidates at most min(6, n) are submitted for
\* LLM re-scoring, in one request per ranking call; no candidate left out
\* has a higher heuristic score than a submitted one, and every candidate
\* left out ends with exactly its heuristic score.
C25_TopSixToLlm ==
    Ranked =>
        /\ Len(llm_candidates) <= 1
        /\ \A r \in 1..Len(llm_candidates) :
              LET c == llm_candidates[r]
                  n == Len(unique_papers)
                  Sent == {Unscored(c[k]) : k \in 1..Len(c)}
              IN /\ Len(c) <= (IF n < 6 THEN n ELSE 6)
                 /\ Cardinality(Sent) = Len(c)
                 /\ \A i \in 1..n :
                       \/ Unscored(unique_papers[i]) \in Sent
                       \/ \A k \in 1..Len(c) :
                             heuristic_score(unique_papers[i]) <= heuristic_score(c[k])
                 /\ \A j \in 1..Len(ranked_papers) :
                       \/ Unscored(ranked_papers[j]) \in Sent
                       \/ ranked_papers[j].relevance_score
                              = heuristic_score(ranked_papers[j])

\* seven candidates ranked with an LLM response: six were submitted, one
\* of them was re-scored away from its heuristic score, and the seventh
\* kept its heuristic score
C25_Witness ==
    /\ rpc = "ranked_llm"
    /\ Len(unique_papers) = 7
    /\ Len(llm_candidates) = 1
    /\ Len(llm_candidates[1]) = 6
    /\ \E j \in 1..7 :
          /\ Unscored(ranked_papers[j]) \in
                 {Unscored(llm_candidates[1][k]) : k \in 1..6}
          /\ ranked_papers[j].relevance_score # heuristic_score(ranked_papers[j])
    /\ \E j \in 1..7 :
          /\ Unscored(ranked_papers[j]) \notin
                 {Unscored(llm_candidates[1][k]) : k \in 1..6}
          /\ ranked_papers[j].relevance_score = heuristic_score(ranked_papers[j])

\* C27: after _rank_papers returns, whether the LLM call succeeded, failed
\* or timed out and whatever its text, every candidate with a non-negative
\* citation count has a relevance score in [0, 1].
C27_ScoreInUnitInterval ==
    Ranked =>
        \A j \in 1..Len(ranked_papers) :
            ranked_papers[j].citations >= 0 =>
                /\ ranked_papers[j].relevance_score >= 0
                /\ ranked_papers[j].relevance_score <= 1000

\* the LLM answered a score above 1 and the candidate got 1.0
C27_Witness ==
    /\ rpc = "ranked_llm"
    /\ \E i \in 1..Len(ranking_llm.text) :
          /\ ranking_llm.text[i].kind = "score"
          /\ ranking_llm.text[i].ok
          /\ ranking_llm.text[i].val > 1000
    /\ \E j \in 1..Len(ranked_papers) :
          /\ ranked_papers[j].relevance_score = 1000
          /\ heuristic_score(ranked_papers[j]) < 1000

\* the blocks of a response as the claim counts them: block k runs from
\* the k-th 'Paper' line to the line before the next one
PaperLines(text) == {i \in 1..Len(text) : text[i].kind = "paper"}
BlockStart(text, k) ==
    CHOOSE i \in PaperLines(text) :
        Cardinality({j \in PaperLines(text) : j <= i}) = k
BlockEnd(text, k) ==
    IF k < Cardinality(PaperLines(text)) THEN BlockStart(text, k + 1) - 1
    ELSE Len(text)
\* the score block k states, 0.5 when it has no parsable Score line
BlockScore(text, k) ==
    LET lines == {i \in BlockStart(text, k)..BlockEnd(text, k) :
                     text[i].kind = "score"}
        last == CHOOSE i \in lines : \A j \in lines : j <= i
    IN IF lines = {} \/ ~text[last].ok THEN 500
       ELSE Min2(Max2(text[last].val, 0), 1000)

\* C30 (as stated): _parse_ranking_results returns exactly num_papers
\* entries, entry i carrying the score of the i-th paper block; a block
\* without a parsable Score line gives entry i the default 0.5 and does not
\* shift the scores of later blocks (entries past the last block are 0.5).
C30_ParseAlignedWithBlocks ==
    (rpc = "ranked_llm" /\ unique_papers # <<>>) =>
        LET text == ranking_llm.text
            num_papers == Len(llm_candidates[1])
        IN /\ Len(parsed_scores) = num_papers
           /\ \A i \in 1..num_papers :
                 /\ parsed_scores[i].has_score
                 /\ parsed_scores[i].score =
                        IF i <= Cardinality(PaperLines(text))
                        THEN BlockScore(text, i) ELSE 500

(***************************************************************************)
(* SpecFilter: _apply_filters on every ranked list of up to MaxRankLen     *)
(* candidates (ordered by descending score, as _rank_papers returns it)    *)
(* and every query with min_sources, max_sources in 1..MaxSources.         *)
(***************************************************************************)
FilterScores == {0, 600, 1000}

ScoredLists(n) ==
    {[i \in 1..n |-> [Paper(TitleOf(i), NoDoi, 0, f[i][2], f[i][3])
                         EXCEPT !.relevance_score = f[i][1]]] :
        f \in {g \in [1..n -> FilterScores \X RankYears \X Abstracts] :
                  \A i \in 1..n : \A j \in 1..n : i < j => g[i][1] >= g[j][1]}}

FilterQueries ==
    {[question |-> <<"a">>, min_sources |-> mn, max_sources |-> mx,
      preferred_years |-> py, exclude_keywords |-> ex] :
        mn \in 1..MaxSources, mx \in 1..MaxSources,
        py \in {<<>>, <<2020, 2025>>},
        ex \in {<<>>, << <<"x">> >>}}

InitFilter ==
    /\ rpc = "ranked"
    /\ query \in FilterQueries
    /\ all_papers = <<>> /\ unique_papers = <<>> /\ rededup_papers = <<>>
    /\ ranked_papers \in UNION {ScoredLists(n) : n \in 0..MaxRankLen}
    /\ filtered_papers = <<>>
    /\ search_results = <<>>
    /\ HeuristicIdle
    /\ RunIdle
    /\ InvokeIdle
    /\ ExtraIdle

\* process() step 5 (literature_scout.py:188)
ApplyFilters ==
    /\ rpc = "ranked"
    /\ filtered_papers' = _apply_filters(ranked_papers, query)
    /\ rpc' = "filtered"
    /\ UNCHANGED <<query, search_results, invokeVars, extraVars, all_papers, unique_papers, rededup_papers,
                   ranked_papers, heuristicVars, runVars>>

NextFilter == ApplyFilters

SpecFilter == InitFilter /\ [][NextFilter]_vars

\* C5 (as stated): for every query with positive min_sources and
\* max_sources, in any relation to each other, _apply_filters returns at
\* most query.max_sources documents.
C5_AtMostMaxSources ==
    rpc = "filtered" => Len(filtered_papers) <= query.max_sources

\* C6 (as stated): _apply_filters returns at least
\* min(query.min_sources, number of distinct candidates) documents, whatever
\* the relevance, year and exclude-keyword filters removed.
C6_AtLeastMinSources ==
    rpc = "filtered" =>
        Len(filtered_papers) >= Min2(query.min_sources, Len(ranked_papers))

\* C11 (as stated): no document of the retrieval output matches an exclude
\* keyword of the query (case-insensitive substring of title plus abstract),
\* also when the output is filled up to the minimum-sources bound.
C11_NoExcludedInOutput ==
    rpc = "filtered" =>
        \A i \in 1..Len(filtered_papers) :
            ~MatchesExcludeKeyword(filtered_papers[i], query)

(***************************************************************************)
(* The research workflow (core/orchestrator.py)                            *)
(***************************************************************************)
END == "END"

\* _build_workflow: add_node order, set_entry_point and add_edge
Stages == <<"literature_search", "document_analysis", "physics_validation",
            "content_synthesis", "report_generation", "quality_control">>

EntryPoint == "literature_search"

\* the revision loop that _build_workflow leaves commented out
EdgeWithRevisionLoop(n) ==
    CASE n = "literature_search" -> "document_analysis"
      [] n = "document_analysis" -> "physics_validation"
      [] n = "physics_validation" -> "content_synthesis"
      [] n = "content_synthesis" -> "report_generation"
      [] n = "report_generation" -> "quality_control"
      [] n = "quality_control" -> "content_synthesis"

\* the graph without its last edge, add_edge("quality_control", END)
EdgeWithoutEnd(n) ==
    CASE n = "literature_search" -> "document_analysis"
      [] n = "document_analysis" -> "physics_validation"
      [] n = "physics_validation" -> "content_synthesis"
      [] n = "content_synthesis" -> "report_generation"
      [] n = "report_generation" -> "quality_control"
      [] n = "quality_control" -> "none"

Edge(n) ==
    CASE n = "literature_search" -> "document_analysis"
      [] n = "document_analysis" -> "physics_validation"
      [] n = "physics_validation" -> "content_synthesis"
      [] n = "content_synthesis" -> "report_generation"
      [] n = "report_generation" -> "quality_control"
      [] n = "quality_control" -> END

\* the prefix of the f-string a node appends to state.errors
StageTag(n) ==
    CASE n = "literature_search" -> "Literature search"
      [] n = "document_analysis" -> "Document analysis"
      [] n = "physics_validation" -> "Physics validation"
      [] n = "content_synthesis" -> "Content synthesis"
      [] n = "report_generation" -> "Report generation"
      [] n = "quality_control" -> "Quality control"

\* the marker a node writes to state.current_step
CompleteMarker(n) ==
    CASE n = "literature_search" -> "literature_search_complete"
      [] n = "document_analysis" -> "document_analysis_complete"
      [] n = "physics_validation" -> "physics_validation_complete"
      [] n = "content_synthesis" -> "content_synthesis_complete"
      [] n = "report_generation" -> "report_generation_complete"
      [] n = "quality_control" -> "quality_control_complete"

\* f"<Stage> error: {e}": the stage prefix and the exception text
ErrorEntry(n, e) == [stage |-> StageTag(n), message |-> e]

\* question=None
NoQuestion == <<"None">>

\* state.query.question.strip() is empty
IsBlank(question) == \A i \in 1..Len(question) : IsSpace(question[i])

WellFormed(q) == q.question # NoQuestion /\ ~IsBlank(q.question)

\* research(), lines 318-323
InitialState == [NoState EXCEPT !.shape = "AgentState", !.current_step = "initialized"]

(***************************************************************************)
(* Inputs of a run                                                         *)
(***************************************************************************)
RunQueries ==
    {[question |-> qu, min_sources |-> mn, max_sources |-> mx,
      preferred_years |-> <<>>, exclude_keywords |-> <<>>] :
        qu \in {<<"a">>, <<" ">>, NoQuestion},
        mn \in 1..MaxSources, mx \in 1..MaxSources}

RunPapers == {Paper(TitleOf(1), NoDoi, 70, 2021, <<>>),
              Paper(TitleOf(2), NoDoi, 0, 2019, <<>>)}

RunAdapterResults == SeqsUpTo(RunPapers, MaxRunPapers)

\* one adapter finds the papers and the others find nothing, catch an error
\* or raise one; or every adapter fails, each in its own way
RunSearchResults ==
    {[i \in 1..NumAdapters |-> IF i = k THEN AdapterOk(found) ELSE other] :
        k \in 1..NumAdapters, found \in RunAdapterResults,
        other \in {AdapterOk(<<>>), AdapterCaught(<<>>), AdapterRaised}}
    \cup [1..NumAdapters -> {AdapterCaught(<<>>), AdapterRaised}]

RunLlmOutcomes == {[kind |-> "ok", text |-> <<>>], [kind |-> "error", text |-> <<>>]}

\* the sub-lists of s (what a loop that skips some items collects)
SubLists(s) ==
    {SelectSeq([i \in 1..Len(s) |-> <<i, s[i]>>], LAMBDA x : x[1] \in keep) :
        keep \in SUBSET (1..Len(s))}
Items(pairs) == [i \in 1..Len(pairs) |-> pairs[i][2]]

(***************************************************************************)
(* Spec: one call of ResearchOrchestrator.research(query)                  *)
(***************************************************************************)
Init ==
    /\ rpc = "idle"
    /\ query \in RunQueries
    /\ all_papers = <<>> /\ unique_papers = <<>> /\ rededup_papers = <<>>
    /\ ranked_papers = <<>> /\ filtered_papers = <<>>
    /\ search_results = <<>>
    /\ HeuristicIdle
    /\ InvokeIdle
    /\ ExtraIdle
    /\ cancelled = "none"
    /\ status = [kind |-> "none"]
    /\ pc = "idle" /\ node = "none" /\ active = {} /\ state = NoState
    /\ started = <<>> /\ finished = <<>> /\ faulted = {}
    /\ analysis_input = <<>>
    /\ outcome = [kind |-> "none", error |-> "none",
                  literature_sources |-> <<>>, errors |-> <<>>]

\* research(), lines 315-331: the initial state is built and the compiled
\* workflow is invoked at its entry point
Research ==
    /\ pc = "idle"
    /\ pc' = "workflow"
    /\ state' = InitialState
    /\ node' = EntryPoint
    /\ UNCHANGED <<cancelled, status, active, started, finished, faulted, analysis_input, outcome,
                   retrievalVars, heuristicVars, invokeVars, extraVars>>

\* the workflow enters the node its last edge leads to
EnterNode ==
    /\ pc = "workflow"
    /\ node # END
    /\ active = {}
    /\ active' = {node}
    /\ started' = Append(started, node)
    /\ UNCHANGED <<cancelled, status, pc, node, state, finished, faulted, analysis_input, outcome,
                   retrievalVars, heuristicVars, invokeVars, extraVars>>

Running(n) == pc = "workflow" /\ node = n /\ active = {n}

\* the node function returns `st`; the workflow follows the node's edge
NodeReturns(n, st) ==
    /\ state' = st
    /\ active' = {}
    /\ finished' = Append(finished, n)
    /\ node' = Edge(n)
    /\ UNCHANGED <<pc, outcome>>

\* an exception leaves the node function: ainvoke raises it and research()
\* re-raises it to its caller (lines 350-352)
NodeRaises(n, st, e) ==
    /\ state' = st
    /\ active' = {}
    /\ finished' = Append(finished, n)
    /\ pc' = "raised"
    /\ outcome' = [outcome EXCEPT !.kind = "raised", !.error = e]
    /\ UNCHANGED node

\* _literature_search_node (lines 157-173) with LiteratureScoutAgent.process
\* (literature_scout.py:140-209)
LiteratureSearchNode ==
    /\ Running("literature_search")
    /\ UNCHANGED <<started, cancelled, status, analysis_input, heuristicVars, invokeVars, extraVars, query, rededup_papers>>
    /\ \/ \* question is None: _validate_input raises AttributeError out of
          \* process; the node's except appends it
          /\ query.question = NoQuestion
          /\ NodeReturns("literature_search",
                 [state EXCEPT !.errors =
                     Append(@, ErrorEntry("literature_search", "AttributeError"))])
          /\ faulted' = faulted \cup {"literature_search"}
          /\ UNCHANGED <<rpc, search_results, all_papers, unique_papers, ranked_papers,
                         filtered_papers>>
       \/ \* blank question: process returns the dict of _handle_error; the
          \* node binds state to it, setting current_step on a dict raises,
          \* and so does state.errors.append in the except branch
          /\ query.question # NoQuestion /\ IsBlank(query.question)
          /\ NodeRaises("literature_search", [state EXCEPT !.shape = "dict"],
                        "AttributeError")
          /\ faulted' = faulted \cup {"literature_search"}
          /\ UNCHANGED <<rpc, search_results, all_papers, unique_papers, ranked_papers,
                         filtered_papers>>
       \/ \* a fault inside process's try block: process appends it and
          \* returns the state without papers; the node marks the step
          \* complete, len(state.papers) raises and the node appends that
          /\ WellFormed(query)
          /\ rpc' = "failed"
          /\ NodeReturns("literature_search",
                 [state EXCEPT
                     !.current_step = "literature_search_complete",
                     !.errors = @ \o <<ErrorEntry("literature_search", "fault"),
                                       ErrorEntry("literature_search", "AttributeError")>>])
          /\ faulted' = faulted \cup {"literature_search"}
          /\ UNCHANGED <<search_results, all_papers, unique_papers, ranked_papers,
                         filtered_papers>>
       \/ \* process succeeds: steps 2-5 and state.papers = filtered_papers
          /\ WellFormed(query)
          /\ \E results \in RunSearchResults, llm \in RunLlmOutcomes :
                LET found == MergeResults(results)
                    unique == _deduplicate_papers(found)
                    ranked == _rank_papers(unique, llm)
                    filtered == _apply_filters(ranked, query)
                IN /\ search_results' = results
                   /\ all_papers' = found
                   /\ unique_papers' = unique
                   /\ ranked_papers' = ranked
                   /\ filtered_papers' = filtered
                   /\ rpc' = "committed"
                   /\ NodeReturns("literature_search",
                          [state EXCEPT
                              !.has_papers = TRUE,
                              !.papers = filtered,
                              !.current_step = "literature_search_complete"])
          /\ UNCHANGED faulted

\* _document_analysis_node (lines 175-194) with
\* DocumentAnalyzerAgent.process (document_analyzer.py:117-178)
DocumentAnalysisNode ==
    /\ Running("document_analysis")
    /\ LET papers == state.literature_results     \* line 181
       IN /\ analysis_input' = papers             \* the list process iterates
          /\ \E docs \in {Items(l) : l \in SubLists(papers)} :
                NodeReturns("document_analysis",
                    [state EXCEPT
                        !.has_papers = TRUE,
                        !.papers = papers,
                        !.analyzed_documents = docs,
                        !.current_step = "document_analysis_complete"])
    /\ UNCHANGED <<started, cancelled, status, faulted, retrievalVars, heuristicVars, invokeVars, extraVars>>

\* _physics_validation_node (lines 196-213) with
\* PhysicsSpecialistAgent.process (physics_specialist.py:227-304)
PhysicsValidationNode ==
    /\ Running("physics_validation")
    /\ \E results \in {Items(l) : l \in SubLists(state.analyzed_documents)} :
          \/ /\ NodeReturns("physics_validation",
                    [state EXCEPT
                        !.validation_results = results,
                        !.current_step = "physics_validation_complete"])
             /\ UNCHANGED faulted
          \/ \* the summary statistics raise on a malformed validation
             /\ results # <<>>
             /\ NodeReturns("physics_validation",
                    [state EXCEPT
                        !.validation_results = results,
                        !.errors = Append(@, ErrorEntry("physics_validation", "fault"))])
             /\ faulted' = faulted \cup {"physics_validation"}
    /\ UNCHANGED <<started, cancelled, status, analysis_input, retrievalVars, heuristicVars, invokeVars, extraVars>>

\* _content_synthesis_node (lines 215-232) with
\* ContentSynthesizerAgent.process (content_synthesizer.py:287-348)
ContentSynthesisNode ==
    /\ Running("content_synthesis")
    /\ IF state.analyzed_documents = <<>>
       THEN NodeReturns("content_synthesis",
                [state EXCEPT
                    !.synthesized_content = "no_content",
                    !.current_step = "content_synthesis_complete"])
       ELSE \/ NodeReturns("content_synthesis",
                   [state EXCEPT
                       !.synthesized_content = "synthesis",
                       !.current_step = "content_synthesis_complete"])
            \/ NodeReturns("content_synthesis",
                   [state EXCEPT
                       !.errors = Append(@, ErrorEntry("content_synthesis", "fault")),
                       !.synthesized_content = "error",
                       !.current_step = "content_synthesis_complete"])
    /\ UNCHANGED <<started, cancelled, status, faulted, analysis_input, retrievalVars, heuristicVars, invokeVars, extraVars>>

\* _report_generation_node (lines 234-262) with
\* ReportGeneratorAgent.process (report_generator.py:209-268), which
\* re-raises its faults
ReportGenerationNode ==
    /\ Running("report_generation")
    /\ \/ /\ NodeReturns("report_generation",
                 [state EXCEPT
                     !.research_report = "ResearchReport",
                     !.current_step = "report_generation_complete"])
          /\ UNCHANGED faulted
       \/ /\ NodeReturns("report_generation",
                 [state EXCEPT
                     !.errors = Append(@, ErrorEntry("report_generation", "fault"))])
          /\ faulted' = faulted \cup {"report_generation"}
    /\ UNCHANGED <<started, cancelled, status, analysis_input, retrievalVars, heuristicVars, invokeVars, extraVars>>

\* _quality_control_node (lines 264-284) with
\* QualityControllerAgent.process (quality_controller.py:65-142)
QualityControlNode ==
    /\ Running("quality_control")
    /\ \/ NodeReturns("quality_control",
              [state EXCEPT
                  !.quality_assessment = "QualityAssessment",
                  !.current_step = "quality_control_complete"])
       \/ NodeReturns("quality_control",
              [state EXCEPT
                  !.errors = Append(@, ErrorEntry("quality_control", "fault")),
                  !.quality_assessment = "QualityAssessment",
                  !.current_step = "quality_control_complete"])
    /\ UNCHANGED <<started, cancelled, status, faulted, analysis_input, retrievalVars, heuristicVars, invokeVars, extraVars>>

(***************************************************************************)
(* research(), lines 333-348: the result is built from the final state     *)
(***************************************************************************)
\* core/models.py:343-358
ResearchResultFields ==
    {"query", "literature_sources", "analyzed_documents", "validation_results",
     "synthesis_insights", "generated_report", "quality_assessment",
     "processing_time", "total_sources_found", "total_sources_analyzed",
     "quality_score", "errors", "warnings"}
ResearchResultRequired ==
    {"query", "literature_sources", "analyzed_documents", "validation_results",
     "synthesis_insights", "generated_report", "quality_assessment",
     "processing_time"}

\* the dataclass __init__: no unknown keyword, no required field missing
ConstructorAccepts(keywords) ==
    /\ keywords \subseteq ResearchResultFields
    /\ ResearchResultRequired \subseteq keywords

\* orchestrator.py:334-342
PassedKeywords ==
    {"query", "literature_sources", "analysis_summary", "report",
     "quality_score", "processing_time", "errors"}

\* quality_assessment.get("score", 0.0): only a dict has .get; the state
\* holds None or a QualityAssessment dataclass
SupportsGet(v) == v = "dict"

BuildResult ==
    /\ pc = "workflow"
    /\ node = END
    /\ active = {}
    /\ IF ~SupportsGet(state.quality_assessment)
       THEN /\ pc' = "raised"
            /\ outcome' = [outcome EXCEPT !.kind = "raised", !.error = "AttributeError"]
       ELSE IF ~ConstructorAccepts(PassedKeywords)
       THEN /\ pc' = "raised"
            /\ outcome' = [outcome EXCEPT !.kind = "raised", !.error = "TypeError"]
       ELSE /\ pc' = "returned"
            /\ outcome' = [kind |-> "returned", error |-> "none",
                           literature_sources |-> state.literature_results,
                           errors |-> state.errors]
    /\ UNCHANGED <<cancelled, status, node, active, state, started, finished, faulted,
                   analysis_input, retrievalVars, heuristicVars, invokeVars, extraVars>>

\* the task that awaits research() is cancelled while a node awaits its
\* agent (main.py:371-372 on Ctrl-C): CancelledError is a BaseException, so
\* neither the node's  except Exception  (lines 169-171) nor research()'s
\* (lines 350-352) catches it, and it reaches the caller
Cancel ==
    /\ \E n \in Range(Stages) :
          /\ Running(n)
          /\ NodeRaises(n, state, "CancelledError")
          /\ cancelled' = n
    /\ UNCHANGED <<started, faulted, analysis_input, status,
                   retrievalVars, heuristicVars, invokeVars, extraVars>>

\* what get_workflow_status builds from the checkpointed values `st`
\* (lines 383-391); a field that is still None is present in state.values
\* or absent from it, depending on how the library stored the input state
StatusResults(st) ==
    LET answered == [kind |-> "status",
                     current_step |-> st.current_step,
                     errors |-> st.errors,
                     revision_count |-> st.revision_count,
                     quality_score |-> 0]
        failed == [kind |-> "error", error |-> "AttributeError"]
    IN IF st.quality_assessment = "None" THEN {answered, failed}
       ELSE IF SupportsGet(st.quality_assessment) THEN {answered}
       ELSE {failed}

\* get_workflow_status(thread_id) for the run's thread (lines 377-391),
\* called once the run has a checkpoint written by a stage
GetWorkflowStatus ==
    /\ pc \in {"workflow", "returned", "raised"}
    /\ finished # <<>>
    /\ state.shape = "AgentState"
    /\ status' \in StatusResults(state)
    /\ UNCHANGED <<pc, node, active, state, started, finished, faulted,
                   analysis_input, outcome, cancelled,
                   retrievalVars, heuristicVars, invokeVars, extraVars>>

Next ==
    \/ Research
    \/ EnterNode
    \/ LiteratureSearchNode
    \/ DocumentAnalysisNode
    \/ PhysicsValidationNode
    \/ ContentSynthesisNode
    \/ ReportGenerationNode
    \/ QualityControlNode
    \/ BuildResult
    \/ Cancel
    \/ GetWorkflowStatus

Spec == Init /\ [][Next]_vars

\* the steps of research() itself: each is a coroutine the event loop
\* resumes once the call it awaits has returned or failed
RunStep ==
    \/ Research
    \/ EnterNode
    \/ LiteratureSearchNode
    \/ DocumentAnalysisNode
    \/ PhysicsValidationNode
    \/ ContentSynthesisNode
    \/ ReportGenerationNode
    \/ QualityControlNode
    \/ BuildResult

\* a run whose external calls all return or fail: research() is never
\* left waiting forever
SpecFair == Spec /\ WF_vars(RunStep)

(***************************************************************************)
(* Properties of a run                                                     *)
(***************************************************************************)
Terminal == pc \in {"returned", "raised"}

\* C1 (as stated): for every well-formed query, research() returns a result
\* to its caller once the last stage has run; no fault raised while the
\* stages run or while the result is assembled reaches the caller.
C1_ResearchReturnsResult ==
    (WellFormed(query) /\ Terminal /\ cancelled = "none")
        => (pc = "returned" /\ outcome.kind = "returned")

\* C2 (as stated): whenever the retrieval stage has committed N candidate
\* documents, the document analysis stage that follows iterates over
\* exactly those N documents.
C2_AnalysisSeesCommitted ==
    (rpc = "committed" /\ "document_analysis" \in Range(finished))
        => analysis_input = filtered_papers

IsPrefix(s, t) == Len(s) <= Len(t) /\ \A i \in 1..Len(s) : s[i] = t[i]

\* C3: the stages start in the fixed order literature_search,
\* document_analysis, physics_validation, content_synthesis,
\* report_generation, quality_control, each at most once; a stage starts
\* only after the previous one has returned; at no instant are two stages
\* running.
C3_FixedOrderSequential ==
    /\ IsPrefix(started, Stages)
    /\ IsPrefix(finished, started)
    /\ Len(started) <= Len(finished) + 1
    /\ active = Range(started) \ Range(finished)
    /\ Cardinality(active) <= 1

\* all six stages have started and returned, in a run in which stages failed
C3_Witness ==
    /\ finished = Stages
    /\ faulted # {}
    /\ node = END

\* C4 (as stated): a fault raised by a stage is captured as an entry of the
\* state's error list tagged with the stage name and a timestamp, it is not
\* re-raised, and the next stage is still executed afterwards.
C4_FaultCapturedAndContinued ==
    \A n \in faulted :
        /\ \E i \in 1..Len(state.errors) :
              /\ state.errors[i].stage = StageTag(n)
              /\ "timestamp" \in DOMAIN state.errors[i]
        /\ ~(pc = "raised" /\ node = n)
        /\ (node = END /\ Edge(n) # END) => Edge(n) \in Range(started)

\* the adapters of the last search that met an error
FailedAdapters == {i \in 1..Len(search_results) : search_results[i].failed}

\* C12 (as stated): if every source adapter fails, the retrieval stage
\* returns an empty candidate list and leaves at least one entry in the
\* state's error log, without raising a fault.
C12_AllAdaptersFail ==
    (rpc = "committed" /\ FailedAdapters = 1..NumAdapters) =>
        /\ state.papers = <<>>
        /\ state.errors # <<>>
        /\ "literature_search" \notin faulted

\* C13 (as stated): when some adapters fail and others succeed, each failing
\* adapter contributes zero documents, its error is recorded in the state's
\* warning list and not as a run failure, and every document a succeeding
\* adapter returned is merged into the candidate collection.
C13_PartialAdapterFailure ==
    (rpc = "committed" /\ FailedAdapters # {} /\ FailedAdapters # 1..NumAdapters) =>
        /\ \A i \in FailedAdapters : search_results[i].papers = <<>>
        /\ Len(state.warnings) >= Cardinality(FailedAdapters)
        /\ "literature_search" \notin faulted
        /\ \A i \in 1..NumAdapters \ FailedAdapters :
              Range(search_results[i].papers) \subseteq Range(all_papers)

\* C17 (as stated): when content synthesis, which needs at least one
\* analyzed document, runs against a state with none, it is skipped (its
\* output stays empty), a skip reason is added to the state's warning log,
\* and the run proceeds to the next stage.
C17_SkipLeavesWarning ==
    ("content_synthesis" \in Range(finished) /\ state.analyzed_documents = <<>>) =>
        /\ state.synthesized_content = "no_content"
        /\ state.warnings # <<>>
        /\ node = END => "report_generation" \in Range(started)

\* C18 (as stated): for a run that has committed at least one stage,
\* get_workflow_status returns the run's current stage marker, its
\* accumulated errors and whether the run is complete, at every point of the
\* run and after the quality assessment is committed; it does not return an
\* error result.
C18_StatusOfExistingRun ==
    [][GetWorkflowStatus =>
          /\ status'.kind = "status"
          /\ status'.current_step = state.current_step
          /\ status'.errors = state.errors
          /\ "is_complete" \in DOMAIN status']_vars

\* C19 (as stated): a query with a missing or blank question makes the run
\* call fail immediately; no stage is entered for such a query.
C19_MalformedFailsBeforeStages ==
    ~WellFormed(query) =>
        /\ started = <<>>
        /\ pc \in {"idle", "raised"}

\* C20 (as stated): if the run is cancelled while stage i is running, the
\* stage returns a cancelled outcome, the engine marks the run Aborted, and no
\* stage after i is ever started in that run.
C20_CancelAborts ==
    cancelled # "none" =>
        /\ outcome.kind = "aborted"
        /\ state.current_step = "aborted"
        /\ started[Len(started)] = cancelled

C29_CompleteMeansNoError ==
    \A n \in Range(Stages) :
        state.current_step = CompleteMarker(n) =>
            \A i \in 1..Len(state.errors) : state.errors[i].stage # StageTag(n)

(***************************************************************************)
(* SpecInvoke: one agent is constructed (BaseAgent.__init__ binds its LLM) *)
(* and then calls _execute_llm_chain (agents/base_agent.py)                *)
(***************************************************************************)
\* the package base_agent.py is loaded in: core/orchestrator.py:19-24 and
\* every entry point import it as  agents.<module>  with src/ on sys.path
ModulePackage == <<"agents">>

\* from ..core.config import Config  (line 94) goes `level` packages up
RelativeImportResolves(level) == Len(ModulePackage) >= level

\* asyncio.sleep(2 ** attempt), with 2 * attempt in its place
BackoffProduct(n) == 2 * n

\* asyncio.sleep(2 ** attempt)
Backoff(n) == 2 ^ n

AgentConfigs ==
    {[max_retries |-> m, primary |-> p, alternate |-> a] :
        m \in 0..MaxRetries, p \in {"ok", "fails"}, a \in {"ok", "fails", "none"}}

InitInvoke ==
    /\ RetrievalIdle
    /\ HeuristicIdle
    /\ RunIdle
    /\ ExtraIdle
    /\ ipc = "new"
    /\ agent_config \in AgentConfigs
    /\ self_llm = "none" /\ model_used = "primary"
    /\ attempt = 0 /\ calls = <<>> /\ waits = <<>>
    /\ invoke_result = [kind |-> "none"]

\* BaseAgent.__init__ line 38 with _initialize_llm (lines 75-121)
_initialize_llm ==
    /\ ipc = "new"
    /\ IF agent_config.primary = "ok"
       THEN /\ self_llm' = "primary"
            /\ ipc' = "ready"
            /\ UNCHANGED <<model_used, invoke_result>>
       ELSE IF ~RelativeImportResolves(2)
       THEN \* the import statement in the except branch raises
            /\ ipc' = "init_raised"
            /\ invoke_result' = [kind |-> "raised", error |-> "ImportError"]
            /\ UNCHANGED <<self_llm, model_used>>
       ELSE IF agent_config.alternate = "ok"
       THEN /\ self_llm' = "alternate"
            /\ model_used' = "alternate"
            /\ ipc' = "ready"
            /\ UNCHANGED invoke_result
       ELSE /\ ipc' = "init_raised"
            /\ invoke_result' = [kind |-> "raised", error |-> "primary error"]
            /\ UNCHANGED <<self_llm, model_used>>
    /\ UNCHANGED <<agent_config, attempt, calls, waits,
                   retrievalVars, heuristicVars, runVars, extraVars>>

\* _execute_llm_chain up to the loop (lines 159-164)
_execute_llm_chain ==
    /\ ipc = "ready"
    /\ calls = <<>>
    /\ \E known \in BOOLEAN :
          IF ~known
          THEN /\ ipc' = "raised"
               /\ invoke_result' = [kind |-> "raised", error |-> "ValueError"]
          ELSE IF agent_config.max_retries = 0
          THEN \* range(0) is empty: the function falls off its end
               /\ ipc' = "returned"
               /\ invoke_result' = [kind |-> "returned", value |-> "None"]
          ELSE /\ ipc' = "attempting"
               /\ UNCHANGED invoke_result
    /\ attempt' = 0
    /\ UNCHANGED <<agent_config, self_llm, model_used, calls, waits,
                   retrievalVars, heuristicVars, runVars, extraVars>>

\* one pass of the loop body up to the sleep (lines 165-187)
Attempt ==
    /\ ipc = "attempting"
    /\ \E ok \in BOOLEAN :
          /\ calls' = Append(calls, ok)
          /\ IF ok
             THEN /\ ipc' = "returned"
                  /\ invoke_result' = [kind |-> "returned", value |-> self_llm]
             ELSE IF attempt = agent_config.max_retries - 1
             THEN /\ ipc' = "raised"
                  /\ invoke_result' = [kind |-> "raised", error |-> "last error"]
             ELSE /\ ipc' = "sleeping"
                  /\ UNCHANGED invoke_result
    /\ UNCHANGED <<agent_config, self_llm, model_used, attempt, waits,
                   retrievalVars, heuristicVars, runVars, extraVars>>

\* await asyncio.sleep(2 ** attempt) and the next iteration (line 190)
Sleep ==
    /\ ipc = "sleeping"
    /\ waits' = Append(waits, Backoff(attempt))
    /\ attempt' = attempt + 1
    /\ ipc' = "attempting"
    /\ UNCHANGED <<agent_config, self_llm, model_used, calls, invoke_result,
                   retrievalVars, heuristicVars, runVars, extraVars>>

NextInvoke ==
    \/ _initialize_llm
    \/ _execute_llm_chain
    \/ Attempt
    \/ Sleep

SpecInvoke == InitInvoke /\ [][NextInvoke]_vars

InvokeOver == ipc \in {"returned", "raised"}

\* C14: _execute_llm_chain never makes more than max_retries attempts and
\* stops at the first successful one; after each failed attempt that is not
\* the last it waits, the waits being 1, 2, 4, ... seconds, and it does not
\* wait after the final attempt.
C14_RetryWithBackoff ==
    /\ Len(calls) <= agent_config.max_retries
    /\ \A i \in 1..Len(calls) : calls[i] => (i = Len(calls) /\ ipc = "returned")
    /\ \A k \in 1..Len(waits) : waits[k] = (IF k = 1 THEN 1 ELSE 2 * waits[k - 1])
    /\ ipc = "attempting" => Len(waits) = Len(calls)
    /\ ipc = "sleeping" => Len(waits) = Len(calls) - 1
    /\ (InvokeOver /\ calls # <<>>) => Len(waits) = Len(calls) - 1

\* a call whose three attempts all failed, with waits of 1 and 2 seconds
C14_Witness ==
    /\ ipc = "raised"
    /\ calls = <<FALSE, FALSE, FALSE>>
    /\ waits = <<1, 2>>

\* C15 (as stated): if all attempts of an invoke call fail, the call returns
\* a structured failure value to its caller rather than throwing the last
\* error.
C15_StructuredFailure ==
    (InvokeOver /\ Len(calls) = agent_config.max_retries /\ calls # <<>>
        /\ \A i \in 1..Len(calls) : ~calls[i])
        => invoke_result.kind = "returned"

\* C16 (as stated): with a primary model that fails to initialize and an
\* alternate that succeeds, the agent ends up bound to the alternate, its
\* calls return responses from the alternate and the agent reports the
\* alternate as the model used; initialization fails only when primary and
\* alternate both fail.
C16_FallbackToAlternate ==
    /\ (ipc # "new" /\ agent_config.primary = "fails" /\ agent_config.alternate = "ok")
          => /\ self_llm = "alternate"
             /\ model_used = "alternate"
             /\ ipc # "init_raised"
    /\ ipc = "init_raised"
          => (agent_config.primary = "fails" /\ agent_config.alternate # "ok")

(***************************************************************************)
(* SpecKeywords: the keyword lists of LiteratureScoutAgent.process          *)
(* (literature_scout.py:153-202) as Python list objects.  keyword_lists is  *)
(* the heap, a reference is an index into it; two fields that hold the same *)
(* reference are the same list.  The stage may be run again on the state it *)
(* produced, with the same answers from its external calls.                 *)
(***************************************************************************)
\* unique_keywords[:25]
MAX_KEYWORDS == 25

\* list(dict.fromkeys(keywords)): first occurrences, in order
DictFromKeys(keywords) ==
    LET idx == SelectSeq([i \in 1..Len(keywords) |-> i],
                         LAMBDA i : \A j \in 1..(i - 1) : keywords[j] # keywords[i])
    IN [k \in 1..Len(idx) |-> keywords[idx[k]]]

\* a list object allocated by the call: [] or a list(...) result
NewList(lists, items) == [lists |-> Append(lists, items), ref |-> Len(lists) + 1]

\* the except branch written as  return []
OriginalKeywordsDropped(lists, q) == NewList(lists, <<>>)

\* the except branch, line 246:  return query.keywords or []  -- the
\* query's own list when it is non-empty, else a new empty list
OriginalKeywords(lists, q) ==
    IF lists[q] # <<>> THEN [lists |-> lists, ref |-> q]
    ELSE NewList(lists, <<>>)

\* _enhance_keywords(query), lines 211-246; llm is the outcome of the
\* keyword_extraction call, its terms the keywords parsed from the response
_enhance_keywords(lists, q, llm) ==
    IF llm.kind = "ok"
    THEN NewList(lists, Take(DictFromKeys(llm.terms \o lists[q]), MAX_KEYWORDS))
    ELSE OriginalKeywords(lists, q)

\* what the adapters do with the keywords argument when they build a Paper:
\* "own" is keywords=[] (lines 288, 372), "shared" is keywords=keywords
\* (lines 671, 707, 760, 837)
SourceKinds == {"own", "shared"}

\* the papers the adapters return, one entry per paper
OwnBefore(sources, i) == Cardinality({j \in 1..i : sources[j] = "own"})

UserKeywords == {<<>>, <<"k">>, <<"m", "k">>}

\* the query's keywords as the user gave them, and the answers of the
\* stage's external calls
Externals ==
    [keywords : UserKeywords,
     enhance : {[kind |-> "error", terms |-> <<>>],
                [kind |-> "ok", terms |-> <<"e">>],
                [kind |-> "ok", terms |-> <<"k", "e", "k">>]},
     sources : SeqsUpTo(SourceKinds, MaxKeywordPapers),
     concepts : {<<>>, <<"x">>},
     ranking : {"ok", "error"}]

InitKeywords ==
    /\ kpc = "start"
    /\ external \in Externals
    /\ keyword_lists = <<external.keywords>>
    /\ query_keywords = 1
    /\ enhanced_keywords = 0
    /\ paper_keywords = <<>>
    /\ keyword_llm = [kind |-> "none"]
    /\ runs = 0
    /\ first_papers = <<>>
    /\ RetrievalIdle /\ HeuristicIdle /\ RunIdle /\ InvokeIdle
    /\ RankIdle /\ IdIdle /\ RevisionIdle

\* process() step 1, line 157
EnhanceKeywords ==
    /\ kpc = "start"
    /\ LET r == _enhance_keywords(keyword_lists, query_keywords, external.enhance)
       IN /\ keyword_lists' = r.lists
          /\ enhanced_keywords' = r.ref
    /\ keyword_llm' = external.enhance
    /\ kpc' = "enhanced"
    /\ UNCHANGED <<query_keywords, paper_keywords, rerunVars, retrievalVars,
                   heuristicVars, runVars, invokeVars, rankVars, idVars, revisionVars>>

\* process() step 2, lines 160-176: every adapter is handed the list
\* _enhance_keywords returned and builds its papers
SearchSources ==
    /\ kpc = "enhanced"
    /\ LET sources == external.sources
           n == Len(sources)
       IN /\ keyword_lists' = keyword_lists \o [k \in 1..OwnBefore(sources, n) |-> <<>>]
          /\ paper_keywords' =
                [i \in 1..n |-> IF sources[i] = "shared" THEN enhanced_keywords
                                ELSE Len(keyword_lists) + OwnBefore(sources, i)]
    /\ kpc' = "searched"
    /\ UNCHANGED <<query_keywords, enhanced_keywords, keyword_llm, rerunVars,
                   retrievalVars, heuristicVars, runVars, invokeVars, rankVars,
                   idVars, revisionVars>>

\* the tags of every paper of state.papers
PaperTags(lists, refs) == [i \in 1..Len(refs) |-> lists[refs[i]]]

\* process() steps 4-5 and the commit, lines 185-202: the ranking response
\* names concepts for the first candidate, and line 473 extends that
\* candidate's keywords with them
RankAndCommit ==
    /\ kpc = "searched"
    /\ keyword_lists' =
          IF external.ranking = "ok" /\ paper_keywords # <<>>
          THEN [keyword_lists EXCEPT ![paper_keywords[1]] = @ \o external.concepts]
          ELSE keyword_lists
    /\ kpc' = "ranked"
    /\ runs' = runs + 1
    /\ first_papers' = IF runs = 0 THEN PaperTags(keyword_lists', paper_keywords)
                       ELSE first_papers
    /\ UNCHANGED <<query_keywords, enhanced_keywords, paper_keywords, keyword_llm,
                   external, retrievalVars, heuristicVars, runVars, invokeVars,
                   rankVars, idVars, revisionVars>>

\* the stage is run again on the state it returned (a resumed run)
RunAgain ==
    /\ kpc = "ranked"
    /\ runs < MaxRuns
    /\ kpc' = "start"
    /\ UNCHANGED <<keyword_lists, query_keywords, enhanced_keywords, paper_keywords,
                   keyword_llm, rerunVars, retrievalVars, heuristicVars, runVars,
                   invokeVars, rankVars, idVars, revisionVars>>

NextKeywords ==
    \/ EnhanceKeywords
    \/ SearchSources
    \/ RankAndCommit
    \/ RunAgain

SpecKeywords == InitKeywords /\ [][NextKeywords]_vars

\* C22 (as stated): re-running a stage on the state it has just produced
\* leaves its output collection with the same entries as after the first
\* run, none of them duplicated; here the retrieval stage and state.papers,
\* whose entries carry their keyword tags.
C22_RerunLeavesSameEntries ==
    (kpc = "ranked" /\ runs >= 2) =>
        PaperTags(keyword_lists, paper_keywords) = first_papers

\* C23: when the keyword-expansion call fails, _enhance_keywords returns
\* exactly the query's keywords, unmodified and in order (an empty list when
\* there are none), and retrieval goes on to the multi-source fetch.
C23_EnhanceFailureKeepsKeywords ==
    (kpc = "enhanced" /\ keyword_llm.kind = "error") =>
        /\ keyword_lists[enhanced_keywords] = keyword_lists[query_keywords]
        /\ runs = 0 => keyword_lists[enhanced_keywords] = external.keywords
        /\ ENABLED SearchSources

\* the call failed for a query with two keywords, and they came back in order
C23_Witness ==
    /\ kpc = "enhanced"
    /\ keyword_llm.kind = "error"
    /\ external.keywords = <<"m", "k">>
    /\ keyword_lists[enhanced_keywords] = <<"m", "k">>

\* C28 (as stated): when ranking adds LLM concept tags to one candidate,
\* only that candidate's keyword tags change: the tags of every other
\* candidate and the expanded keyword list kept in the search metadata are
\* what they were before.
C28_TagsChangeOnOneCandidate ==
    [][RankAndCommit =>
          /\ \A j \in 2..Len(paper_keywords) :
                keyword_lists'[paper_keywords[j]] = keyword_lists[paper_keywords[j]]
          /\ keyword_lists'[enhanced_keywords] = keyword_lists[enhanced_keywords]]_vars

(***************************************************************************)
(* SpecIds: the identifiers one process creates.  ResearchQuery's          *)
(* session_id (models.py:39) and research()'s thread_id                    *)
(* (orchestrator.py:327) are both datetime.now() formatted to the second.  *)
(***************************************************************************)
\* strftime('%Y%m%d_%H%M%S'): the time with its sub-second part dropped
Strftime(t) == t \div TicksPerSecond

InitIds ==
    /\ clock = 0
    /\ session_ids = <<>>
    /\ thread_ids = <<>>
    /\ RetrievalIdle /\ HeuristicIdle /\ RunIdle /\ InvokeIdle
    /\ RankIdle /\ KeywordIdle /\ RerunIdle /\ RevisionIdle

\* time passes
Tick ==
    /\ clock < MaxClock
    /\ clock' = clock + 1
    /\ UNCHANGED <<session_ids, thread_ids, retrievalVars, heuristicVars, runVars,
                   invokeVars, rankVars, keywordVars, rerunVars, revisionVars>>

\* ResearchQuery(question=...): the default_factory of session_id
NewResearchQuery ==
    /\ Len(session_ids) < MaxIds
    /\ session_ids' = Append(session_ids, <<"session", Strftime(clock)>>)
    /\ UNCHANGED <<clock, thread_ids, retrievalVars, heuristicVars, runVars,
                   invokeVars, rankVars, keywordVars, rerunVars, revisionVars>>

\* research(query), line 327: the thread id under which the run is
\* checkpointed and, in _save_result, the directory its result is written to
NewThread ==
    /\ Len(thread_ids) < MaxIds
    /\ thread_ids' = Append(thread_ids, <<"research", Strftime(clock)>>)
    /\ UNCHANGED <<clock, session_ids, retrievalVars, heuristicVars, runVars,
                   invokeVars, rankVars, keywordVars, rerunVars, revisionVars>>

NextIds ==
    \/ Tick
    \/ NewResearchQuery
    \/ NewThread

SpecIds == InitIds /\ [][NextIds]_vars

\* C24 (as stated): every session id and every thread id differs from every
\* other one the process created, also when two are created within the same
\* clock second.
C24_IdsUnique ==
    /\ \A i, j \in 1..Len(session_ids) : i # j => session_ids[i] # session_ids[j]
    /\ \A i, j \in 1..Len(thread_ids) : i # j => thread_ids[i] # thread_ids[j]

(***************************************************************************)
(* SpecRevision: _quality_decision (orchestrator.py:286-303) called again  *)
(* and again in one run, as the router of a revision loop would call it,   *)
(* on whatever the quality stage left in state.quality_assessment.         *)
(***************************************************************************)
\* Config.max_workflow_retries and Config.min_quality_score
max_workflow_retries == 2
min_quality_score == 800

\* state.quality_assessment: None, a dict with a score, or the
\* QualityAssessment dataclass the quality controller stores
Assessments ==
    {[kind |-> "None", score |-> 0], [kind |-> "QualityAssessment", score |-> 0]}
    \cup {[kind |-> "dict", score |-> sc] : sc \in {300, 500, 800, 900}}

\* _quality_decision(state): the answer and the revision count it leaves
_quality_decision(st, qa) ==
    IF qa.kind = "None"
    THEN [answer |-> "revision_needed", revision_count |-> st.revision_count]
    ELSE IF ~SupportsGet(qa.kind)
    THEN [answer |-> "AttributeError", revision_count |-> st.revision_count]
    ELSE IF qa.score >= min_quality_score
    THEN [answer |-> "approved", revision_count |-> st.revision_count]
    ELSE IF st.revision_count < max_workflow_retries
    THEN [answer |-> "revision_needed", revision_count |-> st.revision_count + 1]
    ELSE [answer |-> "approved", revision_count |-> st.revision_count]

InitRevision ==
    /\ decisions = <<>>
    /\ state = InitialState
    /\ pc = "off" /\ node = "none" /\ active = {}
    /\ started = <<>> /\ finished = <<>> /\ faulted = {}
    /\ analysis_input = <<>>
    /\ outcome = [kind |-> "none", error |-> "none",
                  literature_sources |-> <<>>, errors |-> <<>>]
    /\ cancelled = "none"
    /\ status = [kind |-> "none"]
    /\ RetrievalIdle /\ HeuristicIdle /\ InvokeIdle
    /\ RankIdle /\ KeywordIdle /\ IdIdle /\ RerunIdle

\* the router is called while the loop goes on: at first, and after every
\* revision_needed
QualityDecision ==
    /\ Len(decisions) < MaxDecisions
    /\ IF decisions = <<>> THEN TRUE
       ELSE decisions[Len(decisions)].answer = "revision_needed"
    /\ \E qa \in Assessments :
          LET r == _quality_decision(state, qa)
          IN /\ state' = [state EXCEPT !.quality_assessment = qa.kind,
                                       !.revision_count = r.revision_count]
             /\ decisions' = Append(decisions, [assessment |-> qa, answer |-> r.answer])
    /\ UNCHANGED <<pc, node, active, started, finished, faulted, analysis_input,
                   outcome, cancelled, status, retrievalVars, heuristicVars,
                   invokeVars, rankVars, keywordVars, idVars, rerunVars>>

NextRevision == QualityDecision

SpecRevision == InitRevision /\ [][NextRevision]_vars

RevisionsRequested ==
    Cardinality({i \in 1..Len(decisions) : decisions[i].answer = "revision_needed"})

\* C26 (as stated): over any sequence of quality assessments, a missing one
\* included, _quality_decision answers revision_needed at most
\* max_workflow_retries times in one run and otherwise approved;
\* revision_count grows by one per requested revision and never exceeds
\* max_workflow_retries.
C26_RevisionLoopBounded ==
    /\ \A i \in 1..Len(decisions) :
          decisions[i].answer \in {"revision_needed", "approved"}
    /\ RevisionsRequested <= max_workflow_retries
    /\ state.revision_count = RevisionsRequested
    /\ state.revision_count <= max_workflow_retries

====
